---------------------------- MODULE Spec2Model ----------------------------
(***************************************************************************)
(* ATM cell filter (filtering.py), its web front end (app.py) and its      *)
(* command-line simulator (atm_sim.py).                                    *)
(*                                                                         *)
(* Numbers.  The program computes in floats; the model computes on a       *)
(* fixed-point grid: a token is TokenUnit units, time is counted in ticks, *)
(* a bucket's rate is in units per tick.  On the grid every sum, product   *)
(* and comparison of TokenBucket.allow is exact.                           *)
(***************************************************************************)
EXTENDS Integers, Sequences, FiniteSets, TLC

\* ------------------------------------------------------------------ bounds
TokenUnit == 2          \* units per token: 1.0 is TokenUnit units
MaxRate == 2            \* largest bucket rate, units per tick
MaxCap == 4             \* largest burst capacity, units
MaxTime == 3            \* largest timestamp handed to process, ticks
MaxDelta == 3           \* largest spacing of the evenly spaced allow calls, ticks
MaxCalls == 5           \* evenly spaced allow calls made on one bucket
TicksPerSec == 2        \* ticks per second: dt = 1.0 / total_rate is TicksPerSec \div total_rate ticks
MaxDuration == 3        \* largest duration of a run, ticks
FracDen == 2            \* random.random() and mal_frac are multiples of 1 / FracDen
MaxRequests == 2        \* start_sim requests the server receives
MaxAppDuration == 1     \* largest duration a start_sim request asks for, ticks
MaxNowBase == 0         \* largest of the small wall-clock times a run starts at, ticks
MaxExact == 8           \* largest time a float holds to the tick; above it floats are 2 ticks apart

Min(a, b) == IF a <= b THEN a ELSE b

\* ------------------------------------------------------------ filtering.py
\* A flow is the pair (vpi, vci) of ATMCell.header.
header(cell) == <<cell.vpi, cell.vci>>

\* str payloads are sequences of characters.
NORMALDATA == <<"N", "O", "R", "M", "A", "L", "D", "A", "T", "A">>
BADSIG_ == <<"B", "A", "D", "S", "I", "G", "_">>

Digit(d) == <<"0", "1", "2", "3", "4", "5", "6", "7", "8", "9">>[d + 1]

\* str(n) of a non-negative int: its decimal digits.
RECURSIVE str(_)
str(n) == IF n < 10 THEN <<Digit(n)>> ELSE str(n \div 10) \o <<Digit(n % 10)>>

\* Python's `sig in payload` on strings: sig is a contiguous substring.
IsSubstring(sig, payload) ==
    \E i \in 0..(Len(payload) - Len(sig)) :
        SubSeq(payload, i + 1, i + Len(sig)) = sig

\* ATMCell(vpi, vci, payload, is_malicious)
ATMCell(vpi, vci, payload, is_malicious) ==
    [vpi |-> vpi, vci |-> vci, payload |-> payload, is_malicious |-> is_malicious]

\* HeaderRule.check
HeaderCheck(deny_list, cell) == header(cell) \in deny_list

\* PayloadRule.check asking for sig == payload in place of sig in payload.
PayloadCheck_exact(signatures, cell) ==
    \E j \in 1..Len(signatures) : signatures[j] = cell.payload

\* PayloadRule.check
PayloadCheck(signatures, cell) ==
    \E j \in 1..Len(signatures) : IsSubstring(signatures[j], cell.payload)

\* last_time is None (the empty tuple) or a one-element tuple holding a time.
None == <<>>

\* TokenBucket.__init__ with tokens starting at 0.
TokenBucket_startEmpty(rate, burst) ==
    [rate |-> rate, capacity |-> burst, tokens |-> 0, last_time |-> None]

\* TokenBucket.__init__
TokenBucket(rate, burst) ==
    [rate |-> rate, capacity |-> burst, tokens |-> burst, last_time |-> None]

\* Refilled without the min(capacity, ...) clamp of line 73.
Refilled_unclamped(b, now) ==
    LET last == IF b.last_time = None THEN now ELSE b.last_time[1]
        elapsed == now - last
    IN  IF elapsed > 0
        THEN [b EXCEPT !.tokens = b.tokens + elapsed * b.rate, !.last_time = <<now>>]
        ELSE [b EXCEPT !.last_time = <<last>>]

\* Refilled with last_time = now outside the `if elapsed > 0`.
Refilled_alwaysStamp(b, now) ==
    LET last == IF b.last_time = None THEN now ELSE b.last_time[1]
        elapsed == now - last
    IN  IF elapsed > 0
        THEN [b EXCEPT !.tokens = Min(b.capacity, b.tokens + elapsed * b.rate),
                       !.last_time = <<now>>]
        ELSE [b EXCEPT !.last_time = <<now>>]

\* The refill part of TokenBucket.allow: the bucket after lines 69-74.
Refilled(b, now) ==
    LET last == IF b.last_time = None THEN now ELSE b.last_time[1]
        elapsed == now - last
    IN  IF elapsed > 0
        THEN [b EXCEPT !.tokens = Min(b.capacity, b.tokens + elapsed * b.rate),
                       !.last_time = <<now>>]
        ELSE [b EXCEPT !.last_time = <<last>>]

\* allow asking for more than one token (tokens > 1.0).
allow_strict(b, now) ==
    LET r == Refilled(b, now)
    IN  IF r.tokens > TokenUnit
        THEN [bucket |-> [r EXCEPT !.tokens = r.tokens - TokenUnit], ok |-> TRUE]
        ELSE [bucket |-> r, ok |-> FALSE]

\* allow taking what is left of the tokens when it denies.
allow_chargeDenied(b, now) ==
    LET r == Refilled(b, now)
    IN  IF r.tokens >= TokenUnit
        THEN [bucket |-> [r EXCEPT !.tokens = r.tokens - TokenUnit], ok |-> TRUE]
        ELSE [bucket |-> [r EXCEPT !.tokens = 0], ok |-> FALSE]

\* TokenBucket.allow: the bucket after the call and the value returned.
allow(b, now) ==
    LET r == Refilled(b, now)
    IN  IF r.tokens >= TokenUnit
        THEN [bucket |-> [r EXCEPT !.tokens = r.tokens - TokenUnit], ok |-> TRUE]
        ELSE [bucket |-> r, ok |-> FALSE]

\* ATMFilter.__init__: one TokenBucket per key of policer_cfg.
ATMFilter(deny_list, signatures, policer_cfg) ==
    [deny_list |-> deny_list,
     signatures |-> signatures,
     policers |-> [k \in DOMAIN policer_cfg |->
                      TokenBucket(policer_cfg[k].rate, policer_cfg[k].burst)]]

\* process with the policer consulted before the header rule.
process_policerFirst(f, cell, now) ==
    LET key == header(cell)
        policed == key \in DOMAIN f.policers
        a == allow(f.policers[key], now)
        g == IF policed THEN [f EXCEPT !.policers[key] = a.bucket] ELSE f
    IN  IF policed /\ ~a.ok
        THEN [filter |-> g, action |-> "drop", reason |-> "policer"]
        ELSE IF HeaderCheck(f.deny_list, cell)
             THEN [filter |-> g, action |-> "drop", reason |-> "header"]
             ELSE IF PayloadCheck(f.signatures, cell)
                  THEN [filter |-> g, action |-> "drop", reason |-> "payload"]
                  ELSE [filter |-> g, action |-> "forward", reason |-> "None"]

\* process with the payload rule consulted before the policer.
process_payloadFirst(f, cell, now) ==
    IF HeaderCheck(f.deny_list, cell)
    THEN [filter |-> f, action |-> "drop", reason |-> "header"]
    ELSE IF PayloadCheck(f.signatures, cell)
         THEN [filter |-> f, action |-> "drop", reason |-> "payload"]
         ELSE LET key == header(cell)
                  policed == key \in DOMAIN f.policers
                  a == allow(f.policers[key], now)
                  g == IF policed THEN [f EXCEPT !.policers[key] = a.bucket] ELSE f
              IN  IF policed /\ ~a.ok
                  THEN [filter |-> g, action |-> "drop", reason |-> "policer"]
                  ELSE [filter |-> g, action |-> "forward", reason |-> "None"]

\* process giving a flow without a bucket one of its own on first use.
process_bucketOnDemand(f, cell, now) ==
    IF HeaderCheck(f.deny_list, cell)
    THEN [filter |-> f, action |-> "drop", reason |-> "header"]
    ELSE LET key == header(cell)
             b == IF key \in DOMAIN f.policers THEN f.policers[key]
                                               ELSE TokenBucket(0, TokenUnit)
             a == allow(b, now)
             g == [f EXCEPT !.policers = (key :> a.bucket) @@ f.policers]
         IN  IF ~a.ok
             THEN [filter |-> g, action |-> "drop", reason |-> "policer"]
             ELSE IF PayloadCheck(f.signatures, cell)
                  THEN [filter |-> g, action |-> "drop", reason |-> "payload"]
                  ELSE [filter |-> g, action |-> "forward", reason |-> "None"]

\* process giving the token back when the payload rule drops the cell.
process_refundOnPayload(f, cell, now) ==
    IF HeaderCheck(f.deny_list, cell)
    THEN [filter |-> f, action |-> "drop", reason |-> "header"]
    ELSE LET key == header(cell)
             policed == key \in DOMAIN f.policers
             a == allow(f.policers[key], now)
             g == IF policed THEN [f EXCEPT !.policers[key] = a.bucket] ELSE f
             u == IF policed THEN [f EXCEPT !.policers[key] = Refilled(f.policers[key], now)]
                             ELSE f
         IN  IF policed /\ ~a.ok
             THEN [filter |-> g, action |-> "drop", reason |-> "policer"]
             ELSE IF PayloadCheck(f.signatures, cell)
                  THEN [filter |-> u, action |-> "drop", reason |-> "payload"]
                  ELSE [filter |-> g, action |-> "forward", reason |-> "None"]

\* ATMFilter.process: the filter after the call and the (action, reason) returned.
process(f, cell, now) ==
    IF HeaderCheck(f.deny_list, cell)
    THEN [filter |-> f, action |-> "drop", reason |-> "header"]
    ELSE LET key == header(cell)
             policed == key \in DOMAIN f.policers
             a == allow(f.policers[key], now)
             g == IF policed THEN [f EXCEPT !.policers[key] = a.bucket] ELSE f
         IN  IF policed /\ ~a.ok
             THEN [filter |-> g, action |-> "drop", reason |-> "policer"]
             ELSE IF PayloadCheck(f.signatures, cell)
                  THEN [filter |-> g, action |-> "drop", reason |-> "payload"]
                  ELSE [filter |-> g, action |-> "forward", reason |-> "None"]


\* ------------------------------------------------- app.py and atm_sim.py
\* A stats dictionary is a function from the keys it holds to their values; the
\* empty dictionary is the function with no key.
EmptyDict == <<>>

\* stats[k] = 1 in place of stats[k] += 1.
Bump_overwrite(stats, k) == (k :> 1) @@ stats

\* stats[k] += 1 on a defaultdict(int): a key that is absent is created at 0 first.
Bump(stats, k) ==
    IF k \in DOMAIN stats THEN [stats EXCEPT ![k] = @ + 1] ELSE (k :> 1) @@ stats

\* stats[k] read on a defaultdict(int): a key that is absent is created at 0.
Touch(stats, k) == IF k \in DOMAIN stats THEN stats ELSE (k :> 0) @@ stats

\* d.get(k, default)
Get(d, k, default) == IF k \in DOMAIN d THEN d[k] ELSE default

\* d[k] = v
Put(d, k, v) == (k :> v) @@ d

\* f'dropped_{reason}'
DroppedKey(reason) ==
    CASE reason = "header" -> "dropped_header"
      [] reason = "policer" -> "dropped_policer"
      [] reason = "payload" -> "dropped_payload"
      [] OTHER -> "dropped_None"

\* Account without the per-label counters of a dropped cell.
Account_dropUnlabelled(stats, cell, action, reason) ==
    LET s1 == Bump(stats, "total")
        s2 == Bump(s1, IF cell.is_malicious THEN "mal_total" ELSE "legit_total")
    IN  IF action = "drop"
        THEN Bump(Bump(s2, "dropped"), DroppedKey(reason))
        ELSE Bump(Bump(s2, "forwarded"),
                  IF cell.is_malicious THEN "mal_forwarded" ELSE "legit_forwarded")

\* The counters one processed cell adds to (app.py 56-69, atm_sim.py 46-65).
Account(stats, cell, action, reason) ==
    LET s1 == Bump(stats, "total")
        s2 == Bump(s1, IF cell.is_malicious THEN "mal_total" ELSE "legit_total")
    IN  IF action = "drop"
        THEN Bump(Bump(Bump(s2, "dropped"), DroppedKey(reason)),
                  IF cell.is_malicious THEN "mal_dropped" ELSE "legit_dropped")
        ELSE Bump(Bump(s2, "forwarded"),
                  IF cell.is_malicious THEN "mal_forwarded" ELSE "legit_forwarded")

\* The keys of the sim_update payload (app.py 73-86).
SnapshotKeys ==
    {"total", "forwarded", "dropped", "dropped_header", "dropped_policer",
     "dropped_payload", "mal_total", "mal_forwarded", "mal_dropped",
     "legit_total", "legit_forwarded", "legit_dropped"}

\* emit_stats of app.py 73-86: every key, 0 for a key stats does not hold.
Snapshot(stats) == [k \in SnapshotKeys |-> Get(stats, k, 0)]

\* A float result a / b is kept as the pair <<a, b>>; 0.0 is <<0, 1>>.
Zero == <<0, 1>>

\* a / b: the quotient, or the ZeroDivisionError Python raises.
Div(a, b) == [raised |-> b = 0, value |-> <<a, b>>]

\* app.py 93-94 with the division turned round: total / part.
Rate_swapped(final, part, total) ==
    IF Get(final, total, 0) # 0
    THEN Div(Get(final, total, 1), Get(final, part, 0))
    ELSE [raised |-> FALSE, value |-> Zero]

\* app.py 93-94: (final.get(part,0)/final.get(total,1)) if final.get(total) else 0.0
Rate(final, part, total) ==
    IF Get(final, total, 0) # 0
    THEN Div(Get(final, part, 0), Get(final, total, 1))
    ELSE [raised |-> FALSE, value |-> Zero]

\* app.py 92-94: final = dict(stats) plus the two rates; raised when a division
\* raises.
FinalOfEmit(stats) ==
    LET fp == Rate(stats, "legit_dropped", "legit_total")
        final1 == Put(stats, "false_positive_rate", fp.value)
        fn == Rate(final1, "mal_forwarded", "mal_total")
    IN  [raised |-> fp.raised \/ fn.raised,
         final |-> Put(final1, "false_negative_rate", fn.value)]

\* atm_sim.py 67-68: (stats[part] / stats[total]) if stats.get(total) else 0.0, on
\* the defaultdict itself: reading stats[part] creates the key.
RateOfCli(stats, part, total) ==
    IF Get(stats, total, 0) # 0
    THEN LET s == Touch(Touch(stats, part), total)
         IN  [stats |-> s, raised |-> s[total] = 0, value |-> <<s[part], s[total]>>]
    ELSE [stats |-> stats, raised |-> FALSE, value |-> Zero]

\* atm_sim.py 67-69: the stats run_simulation returns.
FinalOfCli(stats) ==
    LET fp == RateOfCli(stats, "legit_dropped", "legit_total")
        s1 == Put(fp.stats, "false_positive_rate", fp.value)
        fn == RateOfCli(s1, "mal_forwarded", "mal_total")
    IN  [raised |-> fp.raised \/ fn.raised,
         final |-> Put(fn.stats, "false_negative_rate", fn.value)]

\* ------------------------------------------------------------------- state
VARIABLES
    atm_filter,     \* an ATMFilter object driven through its API
    ret,            \* the last call of atm_filter.process: <<>> or <<[cell, now, action, reason]>>
    tb,             \* a TokenBucket called at evenly spaced timestamps
    steady,         \* those calls: [start, delta, calls, ok], ok the last value returned
    sims,           \* per run: the thread's state and the locals of run_simulation(_emit)
    events,         \* the events socketio.emit has broadcast so far, in order: [name, run]
    sim_thread,     \* app.py's global sim_thread: 0 for None, else the thread (run) it names
    sim_lock,       \* app.py's sim_lock: 0 when free, else the request whose handler holds it
    handlers        \* per start_sim request: where handle_start_sim is, its locals, and
                    \* the event emit() has sent back to the requesting client

apiVars == <<atm_filter, ret>>
steadyVars == <<tb, steady>>
runVars == <<sims, events>>
appVars == <<sim_thread, sim_lock, handlers>>
vars == <<atm_filter, ret, tb, steady, sims, events, sim_thread, sim_lock, handlers>>

\* The values of the variables a specification does not use.
ApiIdle == atm_filter = ATMFilter({}, <<>>, <<>>) /\ ret = <<>>
SteadyIdle == tb = TokenBucket(0, 0) /\ steady = <<>>
RunIdle == sims = <<>> /\ events = <<>>
AppIdle == sim_thread = 0 /\ sim_lock = 0 /\ handlers = <<>>

\* ------------------------------------------- inputs of the filter's API
Vpis == {0, 1, 2}
Vcis == {10, 20, 30, 40}

\* Flows the API is driven with: a policed one, the denylisted one (which may be
\* policed too), and an unconfigured one.
ApiFlows == {<<0, 10>>, <<1, 30>>, <<0, 20>>}
PolicedFlows == {<<0, 10>>, <<1, 30>>}
DenyLists == {{}, {<<1, 30>>}}
SigLists == {<<>>, <<BADSIG_>>, <<<<"X">>, <<"D", "A", "T", "A">>>>}
Payloads == {NORMALDATA, BADSIG_ \o str(7)}
BucketParams == [rate : 0..MaxRate, burst : 0..MaxCap]
\* policer_cfg: every subset of PolicedFlows policed, with any (rate, burst).
PolicerCfgs == {[k \in P |-> bp] : P \in SUBSET PolicedFlows, bp \in BucketParams}
ApiCells == {ATMCell(f[1], f[2], p, IsSubstring(BADSIG_, p)) : f \in ApiFlows, p \in Payloads}

\* ---------------------------------------------- the filter driven directly
InitApi ==
    /\ atm_filter \in {ATMFilter(d, s, p) : d \in DenyLists, s \in SigLists, p \in PolicerCfgs}
    /\ ret = <<>>
    /\ SteadyIdle
    /\ RunIdle
    /\ AppIdle

\* One call atm_filter.process(cell, now), with any cell and any timestamp.
Process ==
    \E cell \in ApiCells, now \in 0..MaxTime :
        LET r == process(atm_filter, cell, now)
        IN  /\ atm_filter' = r.filter
            /\ ret' = <<[cell |-> cell, now |-> now, action |-> r.action, reason |-> r.reason]>>
            /\ UNCHANGED <<steadyVars, runVars, appVars>>

Next == Process

Spec == InitApi /\ [][Next]_vars

\* ------------------------------- one bucket called at evenly spaced times
InitSteady ==
    /\ \E bp \in BucketParams : bp.burst > 0 /\ tb = TokenBucket(bp.rate, bp.burst)
    /\ \E start \in 0..MaxTime, delta \in 0..MaxDelta :
          steady = [start |-> start, delta |-> delta, calls |-> 0, ok |-> TRUE]
    /\ ApiIdle
    /\ RunIdle
    /\ AppIdle

\* The next call tb.allow(now), delta after the one before.
SteadyAllow ==
    /\ steady.calls < MaxCalls
    /\ LET a == allow(tb, steady.start + steady.calls * steady.delta)
       IN  /\ tb' = a.bucket
           /\ steady' = [steady EXCEPT !.calls = @ + 1, !.ok = a.ok]
    /\ UNCHANGED <<apiVars, runVars, appVars>>

NextSteady == SteadyAllow

SpecSteady == InitSteady /\ [][NextSteady]_vars


\* ------------------------------------------------------- one simulation
\* The rules a run is given.  DefaultCfg is DEFAULT_HEADER_DENY, DEFAULT_SIGS and
\* DEFAULT_POLICER_CFG (the same rules as main_cli's), its two buckets scaled to
\* the grid: (0,10) the larger one, (2,40) one token refilled at the slowest rate.
DefaultCfg ==
    [deny |-> {<<1, 30>>},
     sigs |-> <<BADSIG_>>,
     policer |-> (<<0, 10>> :> [rate |-> MaxRate, burst |-> MaxCap])
                 @@ (<<2, 40>> :> [rate |-> 1, burst |-> TokenUnit])]

\* header_deny=None, signatures=None, policer_cfg=None
NoneCfg == [deny |-> {}, sigs |-> <<>>, policer |-> <<>>]

RunCfgs == {DefaultCfg, NoneCfg}

\* (duration, rate, mal_frac) of a run: duration in ticks, rate in cells per
\* second, mal_frac in 1 / FracDen.
RunParams == [duration : 0..MaxDuration, rate : 0..TicksPerSec, mal_frac : 0..FracDen]

\* What one turn of the generator draws: random.choice twice, random.random()
\* (u / FracDen) and random.randint(0, 999).
Draws == [vpi : Vpis, vci : Vcis, u : 0..(FracDen - 1), n : {42}]

\* A thread created for a run and not started, or a call about to be made.
NewSim(mode, params, cfg) ==
    [pc |-> "new", mode |-> mode, duration |-> params.duration, rate |-> params.rate,
     mal_frac |-> params.mal_frac, cfg |-> cfg,
     filt |-> ATMFilter({}, <<>>, <<>>), stats |-> EmptyDict, now_base |-> 0, t |-> 0,
     emit_stats |-> EmptyDict, result |-> EmptyDict, exc |-> "None"]

\* A thread (a call) that is over: its locals are gone; what run_simulation
\* returned to its caller stays.
OverSim(sim, pc, exc) ==
    [NewSim(sim.mode, [duration |-> 0, rate |-> 0, mal_frac |-> 0], NoneCfg)
        EXCEPT !.pc = pc, !.exc = exc,
               !.result = IF sim.mode = "cli" THEN sim.result ELSE EmptyDict]

\* Thread.is_alive(): started, and run() not over.
IsAlive(sim) == sim.pc \in {"start", "loop", "returned"}

\* traffic_generator 34-40 (generate_traffic 28-34): the cell of one draw.
GenCell(sim, d) ==
    LET is_mal == d.u < sim.mal_frac
    IN  ATMCell(d.vpi, d.vci, IF is_mal THEN BADSIG_ \o str(d.n) ELSE NORMALDATA, is_mal)

\* dt = 1.0 / total_rate
Dt(sim) == TicksPerSec \div sim.rate

\* The float nearest to x.  Times up to MaxExact are floats; above it only every
\* other tick is one, and a time half way between two floats is rounded to the
\* one whose last mantissa bit is 0 (round half to even).
Fl(x) ==
    IF x <= MaxExact \/ x % 2 = 0 THEN x
    ELSE IF (x - 1) % 4 = 0 THEN x - 1 ELSE x + 1

\* time.time(): a float, small (a clock near the epoch) or beyond MaxExact.
NowBases == {x \in 0..(MaxExact + 2) : Fl(x) = x /\ (x <= MaxNowBase \/ x > MaxExact)}

\* now = now_base + t_offset, a float addition.
Now(sim) == Fl(sim.now_base + sim.t)

\* One turn of the loop on the draw d, up to the counters (app.py 54-69,
\* atm_sim.py 44-65): the run's locals after it.
Turn(sim, d) ==
    LET cell == GenCell(sim, d)
        p == process(sim.filt, cell, Now(sim))
    IN  [sim EXCEPT !.filt = p.filter,
                    !.stats = Account(sim.stats, cell, p.action, p.reason),
                    !.t = sim.t + Dt(sim)]

\* app.py 48-52, atm_sim.py 38-43: the filter, the empty stats, now_base.
RunBegin(r) ==
    /\ sims[r].pc = "start"
    /\ \E nb \in NowBases :
          sims' = [sims EXCEPT ![r].pc = "loop",
                               ![r].filt = ATMFilter(sims[r].cfg.deny, sims[r].cfg.sigs,
                                                     sims[r].cfg.policer),
                               ![r].stats = EmptyDict,
                               ![r].now_base = nb,
                               ![r].t = 0]
    /\ UNCHANGED <<events, apiVars, steadyVars, appVars>>

\* The generator's first turn with total_rate = 0: dt = 1.0 / total_rate raises
\* ZeroDivisionError, which ends the thread (the call) there.
RunCrash(r) ==
    /\ sims[r].pc = "loop"
    /\ sims[r].rate = 0
    /\ sims' = [sims EXCEPT ![r] = OverSim(sims[r], "crashed", "ZeroDivisionError: dt")]
    /\ UNCHANGED <<events, apiVars, steadyVars, appVars>>

\* One turn of the loop (app.py 54-89, atm_sim.py 44-65): the generator yields a
\* cell, the filter decides, the counters are added to, and run_simulation_emit
\* emits sim_update when the wall clock says update_interval has passed.
RunCell(r) ==
    /\ sims[r].pc = "loop"
    /\ sims[r].rate # 0
    /\ sims[r].t < sims[r].duration
    /\ \E d \in Draws, due \in BOOLEAN :
          LET sim == sims[r]
              sim1 == Turn(sim, d)
          IN  IF sim.mode = "emit" /\ due
              THEN /\ sims' = [sims EXCEPT ![r] =
                                  [sim1 EXCEPT !.emit_stats = Snapshot(sim1.stats)]]
                   /\ events' = Append(events, [name |-> "sim_update", run |-> r])
              ELSE /\ sim.mode = "emit" \/ ~due
                   /\ sims' = [sims EXCEPT ![r] = sim1]
                   /\ events' = events
    /\ UNCHANGED <<apiVars, steadyVars, appVars>>

\* RunFinal that goes round the loop once more after the final emit.
RunFinal_again(r) ==
    /\ sims[r].pc = "loop"
    /\ sims[r].rate # 0
    /\ sims[r].t >= sims[r].duration
    /\ Len(events) < MaxDuration + 2
    /\ events' = Append(events, [name |-> "sim_done", run |-> r])
    /\ UNCHANGED <<sims, apiVars, steadyVars, appVars>>

\* The generator is exhausted: the rates are computed and, in run_simulation_emit,
\* sim_done is emitted (app.py 92-95); run_simulation returns stats (atm_sim.py 67-69).
RunFinal(r) ==
    /\ sims[r].pc = "loop"
    /\ sims[r].rate # 0
    /\ sims[r].t >= sims[r].duration
    /\ LET sim == sims[r]
           f == IF sim.mode = "emit" THEN FinalOfEmit(sim.stats) ELSE FinalOfCli(sim.stats)
       IN  IF f.raised
           THEN /\ sims' = [sims EXCEPT
                             ![r] = OverSim(sim, "crashed", "ZeroDivisionError: rate")]
                /\ events' = events
           ELSE IF sim.mode = "emit"
                THEN /\ sims' = [sims EXCEPT ![r].pc = "returned", ![r].result = f.final]
                     /\ events' = Append(events, [name |-> "sim_done", run |-> r])
                ELSE /\ sims' = [sims EXCEPT ![r].pc = "ended", ![r].result = f.final]
                     /\ events' = events
    /\ UNCHANGED <<apiVars, steadyVars, appVars>>

\* run_simulation_emit has returned: the thread is no longer alive.
ThreadEnd(r) ==
    /\ sims[r].pc = "returned"
    /\ sims' = [sims EXCEPT ![r] = OverSim(sims[r], "ended", "None")]
    /\ UNCHANGED <<events, apiVars, steadyVars, appVars>>

\* One run on its own: run_simulation_emit in its thread, or run_simulation
\* called by main_cli, with any parameters and either set of rules.
InitRun ==
    /\ \E mode \in {"emit", "cli"}, params \in RunParams, cfg \in RunCfgs :
          sims = <<[NewSim(mode, params, cfg) EXCEPT !.pc = "start"]>>
    /\ events = <<>>
    /\ ApiIdle
    /\ SteadyIdle
    /\ AppIdle

NextRun ==
    \/ RunBegin(1)
    \/ RunCrash(1)
    \/ RunCell(1)
    \/ RunFinal(1)
    \/ ThreadEnd(1)

SpecRun == InitRun /\ [][NextRun]_vars

\* ------------------------------------- two simulations with the same seed
\* random.seed(seed) fixes the stream the generator draws from: the i-th turn of
\* two runs with the same seed draws the same values.  The two runs take their
\* i-th turn in one step, on one draw.
PairTurn ==
    /\ \A r \in DOMAIN sims :
          sims[r].pc = "loop" /\ sims[r].rate # 0 /\ sims[r].t < sims[r].duration
    /\ \E d \in Draws : sims' = [r \in DOMAIN sims |-> Turn(sims[r], d)]
    /\ UNCHANGED <<events, apiVars, steadyVars, appVars>>

\* Two calls run_simulation(duration, rate, mal_frac, ..., seed) with the same
\* arguments, each at a time of its own.
InitPair ==
    /\ \E params \in RunParams, cfg \in RunCfgs :
          sims = [r \in 1..2 |-> [NewSim("cli", params, cfg) EXCEPT !.pc = "start"]]
    /\ events = <<>>
    /\ ApiIdle
    /\ SteadyIdle
    /\ AppIdle

NextPair ==
    \/ \E r \in 1..2 : RunBegin(r)
    \/ \E r \in 1..2 : RunCrash(r)
    \/ PairTurn
    \/ \E r \in 1..2 : RunFinal(r)

SpecPair == InitPair /\ [][NextPair]_vars

\* ------------------------------------------------- app.py: the server
Requests == 1..MaxRequests

\* No thread was created for the request.
NoSim == [NewSim("emit", [duration |-> 0, rate |-> 0, mal_frac |-> 0], NoneCfg)
             EXCEPT !.pc = "none"]

\* handle_start_sim not yet called for the request.
NewHandler ==
    [pc |-> "idle", saw_alive |-> FALSE, reply |-> "None",
     params |-> [duration |-> 0, rate |-> 0, mal_frac |-> 0]]

\* What a start_sim request asks for: a duration, no cells per second or one per
\* tick, no malicious cell or only malicious cells.
AppParams == [duration : 0..MaxAppDuration, rate : {0, TicksPerSec}, mal_frac : {0, FracDen}]

\* threading.Lock without mutual exclusion: acquire always succeeds.
CanAcquire_always == TRUE

\* threading.Lock.acquire succeeds when the lock is free.
CanAcquire == sim_lock = 0

\* `with sim_lock:` of line 108: the handler of request h takes the lock.
Acquire(h) ==
    /\ handlers[h].pc = "idle"
    /\ CanAcquire
    /\ sim_lock' = h
    /\ handlers' = [handlers EXCEPT ![h].pc = "check"]
    /\ UNCHANGED <<sim_thread, runVars, apiVars, steadyVars>>

\* Line 109 never finding a simulation running.
Running_never == FALSE

\* Line 109 without the is_alive() test.
Running_anyThread == sim_thread # 0

\* `if sim_thread and sim_thread.is_alive()` of line 109.
Running == sim_thread # 0 /\ IsAlive(sims[sim_thread])

\* Lines 109-119: a simulation is running, so sim_error is sent back and the
\* handler returns (leaving the with block frees the lock); or the request's
\* duration, rate and mal_frac are read.
Check(h) ==
    /\ handlers[h].pc = "check"
    /\ IF Running
       THEN /\ handlers' = [handlers EXCEPT ![h].pc = "done", ![h].saw_alive = TRUE,
                                            ![h].reply = "sim_error"]
            /\ sim_lock' = 0
       ELSE /\ \E params \in AppParams :
                  handlers' = [handlers EXCEPT ![h].pc = "create", ![h].params = params]
            /\ sim_lock' = sim_lock
    /\ UNCHANGED <<sim_thread, runVars, apiVars, steadyVars>>

\* Lines 121-123: sim_thread = threading.Thread(target=run_simulation_emit, ...)
\* with the default rules.
Create(h) ==
    /\ handlers[h].pc = "create"
    /\ sim_thread' = h
    /\ sims' = [sims EXCEPT ![h] = NewSim("emit", handlers[h].params, DefaultCfg)]
    /\ handlers' = [handlers EXCEPT ![h].pc = "start", ![h].params = NewHandler.params]
    /\ UNCHANGED <<events, sim_lock, apiVars, steadyVars>>

\* Line 124: sim_thread.start(), on the thread the global names now; starting a
\* thread a second time raises RuntimeError, which ends the handler.
Start(h) ==
    /\ handlers[h].pc = "start"
    /\ IF sims[sim_thread].pc = "new"
       THEN /\ sims' = [sims EXCEPT ![sim_thread].pc = "start"]
            /\ handlers' = [handlers EXCEPT ![h].pc = "started"]
            /\ sim_lock' = sim_lock
       ELSE /\ sims' = sims
            /\ handlers' = [handlers EXCEPT ![h].pc = "done", ![h].reply = "RuntimeError"]
            /\ sim_lock' = 0
    /\ UNCHANGED <<sim_thread, events, apiVars, steadyVars>>

\* Line 125: sim_started is sent back; leaving the with block frees the lock.
Started(h) ==
    /\ handlers[h].pc = "started"
    /\ handlers' = [handlers EXCEPT ![h].pc = "done", ![h].reply = "sim_started"]
    /\ sim_lock' = 0
    /\ UNCHANGED <<sim_thread, runVars, apiVars, steadyVars>>

\* The server after start-up: no simulation thread, MaxRequests start_sim
\* requests to come, each handled in a thread of its own.
InitApp ==
    /\ sim_thread = 0
    /\ sim_lock = 0
    /\ handlers = [h \in Requests |-> NewHandler]
    /\ sims = [h \in Requests |-> NoSim]
    /\ events = <<>>
    /\ ApiIdle
    /\ SteadyIdle

\* A step of the handler of request h.
Handler(h) == Acquire(h) \/ Check(h) \/ Create(h) \/ Start(h) \/ Started(h)

\* A step of the simulation thread r.
Worker(r) == RunBegin(r) \/ RunCrash(r) \/ RunCell(r) \/ RunFinal(r) \/ ThreadEnd(r)

NextApp ==
    \/ \E h \in Requests : Handler(h)
    \/ \E r \in Requests : Worker(r)

SpecApp == InitApp /\ [][NextApp]_vars

\* The scheduler lets every thread that can take a step take one eventually.
SpecAppFair ==
    /\ SpecApp
    /\ \A h \in Requests : WF_vars(Handler(h))
    /\ \A r \in Requests : WF_vars(Worker(r))

\* ------------------------------------------------------------------ claims
\* The step is a call of atm_filter.process, recorded in ret'.
Called == Len(ret') = 1 /\ <<atm_filter, ret>> # <<atm_filter', ret'>>

\* C1: a cell whose (vpi, vci) is denylisted is answered (drop, header) whatever
\* the policer configuration and the payload are, and the call leaves tokens and
\* last_time of every TokenBucket as they were, the bucket of that flow included.
C1_HeaderDropLeavesBuckets ==
    [][(Called /\ header(ret'[1].cell) \in atm_filter.deny_list)
        => /\ ret'[1].action = "drop"
           /\ ret'[1].reason = "header"
           /\ atm_filter'.policers = atm_filter.policers]_vars

\* A denylisted cell of a policed flow, carrying a signature, was dropped for its
\* header while that flow's bucket held a whole token.
C1_Witness ==
    /\ Len(ret) = 1
    /\ header(ret[1].cell) \in atm_filter.deny_list
    /\ header(ret[1].cell) \in DOMAIN atm_filter.policers
    /\ atm_filter.policers[header(ret[1].cell)].tokens >= TokenUnit
    /\ PayloadCheck(atm_filter.signatures, ret[1].cell)
    /\ ret[1].reason = "header"

\* The outcome the fixed order header, policer, payload prescribes for a call made
\* in the state f.
FirstMatch(f, cell, now) ==
    IF header(cell) \in f.deny_list THEN <<"drop", "header">>
    ELSE IF header(cell) \in DOMAIN f.policers /\ ~allow(f.policers[header(cell)], now).ok
         THEN <<"drop", "policer">>
    ELSE IF \E j \in 1..Len(f.signatures) : IsSubstring(f.signatures[j], cell.payload)
         THEN <<"drop", "payload">>
    ELSE <<"forward", "None">>

\* C2: process returns the first matching outcome in the order header, policer,
\* payload, else (forward, None); no other (action, reason) pair is returned.
C2_FirstMatchingOutcome ==
    [][Called => <<ret'[1].action, ret'[1].reason>>
                    = FirstMatch(atm_filter, ret'[1].cell, ret'[1].now)]_vars

\* A cell that carries a signature was dropped by the policer: the policer is
\* asked before the payload rule.
C2_Witness ==
    /\ Len(ret) = 1
    /\ ret[1].reason = "policer"
    /\ PayloadCheck(atm_filter.signatures, ret[1].cell)

\* C3: after any sequence of allow calls, 0 <= tokens <= capacity for every bucket.
C3_TokensWithinCapacity ==
    \A k \in DOMAIN atm_filter.policers :
        /\ 0 <= atm_filter.policers[k].tokens
        /\ atm_filter.policers[k].tokens <= atm_filter.policers[k].capacity

\* A bucket that was refilled up to its capacity and then emptied by allowed calls.
C3_Witness ==
    \E k \in DOMAIN atm_filter.policers :
        LET b == atm_filter.policers[k]
        IN  /\ b.last_time # None
            /\ b.last_time[1] > 0
            /\ b.rate > 0
            /\ b.capacity >= 2 * TokenUnit
            /\ b.tokens < TokenUnit
            /\ Len(ret) = 1 /\ header(ret[1].cell) = k /\ ret[1].action = "forward"

\* C8 as stated: calls spaced delta apart with delta * rate >= 1 all return true,
\* whatever the capacity of the bucket is.
C8_EveryCallAllowed ==
    (steady.calls > 0 /\ steady.delta * tb.rate >= TokenUnit) => steady.ok

\* C8, amended: calls spaced delta apart with delta * rate >= 1 on a bucket whose
\* capacity is at least one token all return true.
C8_EveryCallAllowedGivenCapacity ==
    (steady.calls > 0 /\ steady.delta * tb.rate >= TokenUnit /\ tb.capacity >= TokenUnit)
        => steady.ok

\* The last of MaxCalls calls on a bucket of exactly one token, refilled by
\* exactly one token per call, was allowed.
C8_Witness ==
    /\ steady.calls = MaxCalls
    /\ steady.delta * tb.rate = TokenUnit
    /\ tb.capacity = TokenUnit
    /\ steady.ok

\* The events of run r, in the order they were emitted.
EventsOf(r) == SelectSeq(events, LAMBDA e : e.run = r)

\* Run r went through its whole sequence and returned.
Completed(r) == sims[r].pc \in {"returned", "ended"}

\* Run r holds its final result: run_simulation_emit has emitted it as sim_done,
\* run_simulation has returned it.
HasFinal(r) ==
    \/ sims[r].mode = "emit" /\ sims[r].pc = "returned"
    \/ sims[r].mode = "cli" /\ sims[r].pc = "ended"

FinalKeys == SnapshotKeys \cup {"false_positive_rate", "false_negative_rate"}

\* C9: the final result of every run holds every named counter, those that are 0
\* included, and the two rates.
C9_FinalHasEveryCounter ==
    \A r \in DOMAIN sims : HasFinal(r) => FinalKeys \subseteq DOMAIN sims[r].result

\* The float <<a, b>> equals part / total.
IsQuotient(x, part, total) == x[2] # 0 /\ x[1] * total = part * x[2]

AliveThreads == {r \in DOMAIN sims : IsAlive(sims[r])}

\* C4: under any interleaving of start_sim requests and of workers finishing, at
\* most one simulation thread is alive; two requests never both get from the
\* check to the start.
C4_AtMostOneWorkerAlive ==
    /\ Cardinality(AliveThreads) <= 1
    /\ Cardinality({h \in DOMAIN handlers : handlers[h].pc \in {"create", "start", "started"}}) <= 1

\* A second simulation runs after the first one ended, while the handler of a
\* third request, or of the first, cannot be in its check-and-start.
C4_Witness ==
    /\ sims[1].pc = "ended"
    /\ sims[2].pc = "loop"
    /\ handlers[1].reply = "sim_started"
    /\ handlers[2].reply = "sim_started"

\* The step is one of the handler of request h.
StepOf(h) == handlers'[h] # handlers[h]

\* C5: a start_sim handled while a worker is alive is answered sim_error and
\* nothing else (no thread is created or started, sim_thread and the running
\* simulation stay as they are, and the handler is over: nothing is queued); a
\* start_sim handled while no worker is alive is accepted and starts one worker.
C5_RejectedWhileRunningElseAccepted ==
    [][\A h \in DOMAIN handlers :
          /\ (StepOf(h) /\ handlers[h].pc = "check" /\ AliveThreads # {})
                => /\ handlers'[h].pc = "done"
                   /\ handlers'[h].reply = "sim_error"
                   /\ sim_thread' = sim_thread
                   /\ sims' = sims
                   /\ events' = events
          /\ (StepOf(h) /\ handlers[h].pc = "check" /\ AliveThreads = {})
                => /\ handlers'[h].pc = "create"
                   /\ handlers'[h].reply = "None"
          /\ handlers[h].pc = "done" => handlers'[h] = handlers[h]
          /\ handlers'[h].reply = "sim_error" => sims'[h].pc = "none"
          /\ handlers'[h].reply = "sim_started"
                => /\ sims'[h].pc \notin {"none", "new"}
                   /\ ~handlers'[h].saw_alive
          /\ (handlers'[h].pc = "done" /\ ~handlers'[h].saw_alive)
                => handlers'[h].reply = "sim_started"]_vars

\* One request was accepted and its worker is in its loop; the other was handled
\* meanwhile and answered sim_error.
C5_Witness ==
    /\ handlers[1].reply = "sim_started"
    /\ sims[1].pc = "loop"
    /\ handlers[2].reply = "sim_error"
    /\ sims[2].pc = "none"
    /\ sim_thread = 1

\* sim_done was emitted for run r.
DoneEmitted(r) == \E i \in 1..Len(events) : events[i] = [name |-> "sim_done", run |-> r]

\* C7: every accepted run reaches completion: the generator is finite, the
\* worker goes through all of it, and sim_done is eventually emitted.
C7_EveryAcceptedRunCompletes ==
    \A r \in Requests : (sims[r].pc = "start") ~> DoneEmitted(r)

\* C11: two runs with the same duration, rate, malicious fraction, seed and rules
\* end with the same final counters, whatever now_base each of them started at.
C11_SameFinalCounters ==
    (HasFinal(1) /\ HasFinal(2)) => sims[1].result = sims[2].result

\* The rules of the run hold the signature every malicious payload starts with.
HasBadSig(sim) == \E j \in 1..Len(sim.cfg.sigs) : sim.cfg.sigs[j] = BADSIG_

\* The step is a turn of the loop of run r on a malicious cell.
MalTurn(r) ==
    /\ sims[r].pc = "loop"
    /\ sims'[r].pc = "loop"
    /\ Get(sims'[r].stats, "mal_total", 0) = Get(sims[r].stats, "mal_total", 0) + 1

\* What the step adds to the counter k of run r.
Inc(r, k) == Get(sims'[r].stats, k, 0) - Get(sims[r].stats, k, 0)

\* C12: with signatures = ["BADSIG_"], mal_forwarded is 0 after every processed
\* cell, every malicious cell is dropped, and with reason payload unless it was
\* dropped for its header or by the policer, and the final false_negative_rate is
\* 0.0.
C12_NoMaliciousForwarded ==
    [][\A r \in DOMAIN sims' :
          HasBadSig(sims'[r]) =>
             /\ Get(sims'[r].stats, "mal_forwarded", 0) = 0
             /\ MalTurn(r) =>
                   /\ Inc(r, "mal_dropped") = 1
                   /\ Inc(r, "dropped") = 1
                   /\ Inc(r, "forwarded") = 0
                   /\ Inc(r, "dropped_payload")
                         = 1 - Inc(r, "dropped_header") - Inc(r, "dropped_policer")
                   /\ Inc(r, "dropped_payload") \in {0, 1}
             /\ HasFinal(r)' =>
                   /\ Get(sims'[r].result, "mal_forwarded", 0) = 0
                   /\ sims'[r].result["false_negative_rate"][1] = 0
                   /\ sims'[r].result["false_negative_rate"][2] # 0]_vars

\* A finished run under the default rules that saw two malicious cells, dropped
\* one for its payload and the other for its header, and reports a
\* false_negative_rate of 0 / 2.
C12_Witness ==
    /\ HasFinal(1)
    /\ HasBadSig(sims[1])
    /\ Get(sims[1].result, "mal_total", 0) = 2
    /\ Get(sims[1].result, "dropped_payload", 0) = 1
    /\ Get(sims[1].result, "dropped_header", 0) = 1
    /\ sims[1].result["false_negative_rate"] = <<0, 2>>

\* C13: a cell of a flow without a configured bucket is never dropped by the
\* policer (the header and payload rules alone decide), processing it leaves
\* every bucket as it was, and no call creates or removes a bucket: the keys of
\* policers stay the configured ones.
C13_UnpolicedFlowBypassesPolicer ==
    [][Called =>
          /\ DOMAIN atm_filter'.policers = DOMAIN atm_filter.policers
          /\ header(ret'[1].cell) \notin DOMAIN atm_filter.policers
                => /\ atm_filter'.policers = atm_filter.policers
                   /\ <<ret'[1].action, ret'[1].reason>> =
                         IF header(ret'[1].cell) \in atm_filter.deny_list
                         THEN <<"drop", "header">>
                         ELSE IF PayloadCheck(atm_filter.signatures, ret'[1].cell)
                              THEN <<"drop", "payload">>
                              ELSE <<"forward", "None">>]_vars

\* A cell of a flow without a bucket was forwarded while the filter polices other
\* flows and a bucket of it is out of tokens.
C13_Witness ==
    /\ Len(ret) = 1
    /\ header(ret[1].cell) \notin DOMAIN atm_filter.policers
    /\ ret[1].action = "forward"
    /\ \E k \in DOMAIN atm_filter.policers :
          /\ atm_filter.policers[k].last_time # None
          /\ atm_filter.policers[k].tokens < TokenUnit

\* The step is a call of process that asked the bucket of the cell's flow.
Asked == Called /\ header(ret'[1].cell) \in DOMAIN atm_filter.policers
               /\ header(ret'[1].cell) \notin atm_filter.deny_list

\* C14: allow called with now <= last_time on a bucket already used refills
\* nothing and leaves last_time as it was, and the call is decided by
\* tokens >= 1.0 on the tokens the bucket held; over any calls last_time of a
\* bucket never decreases.
C14_StaleTimestampSkipsRefill ==
    [][/\ \A k \in DOMAIN atm_filter.policers :
             atm_filter.policers[k].last_time # None
                => /\ atm_filter'.policers[k].last_time # None
                   /\ atm_filter'.policers[k].last_time[1]
                         >= atm_filter.policers[k].last_time[1]
       /\ Asked =>
             LET b == atm_filter.policers[header(ret'[1].cell)]
                 c == atm_filter'.policers[header(ret'[1].cell)]
             IN  (b.last_time # None /\ ret'[1].now <= b.last_time[1])
                    => /\ c.last_time = b.last_time
                       /\ IF b.tokens >= TokenUnit
                          THEN c.tokens = b.tokens - TokenUnit /\ ret'[1].reason # "policer"
                          ELSE c.tokens = b.tokens /\ ret'[1].reason = "policer"]_vars

\* A call with a timestamp before the bucket's last_time was allowed on the
\* tokens the bucket still held: last_time stayed ahead of the call's now.
C14_Witness ==
    /\ Len(ret) = 1
    /\ header(ret[1].cell) \in DOMAIN atm_filter.policers
    /\ header(ret[1].cell) \notin atm_filter.deny_list
    /\ ret[1].reason # "policer"
    /\ atm_filter.policers[header(ret[1].cell)].rate > 0
    /\ atm_filter.policers[header(ret[1].cell)].last_time # None
    /\ ret[1].now < atm_filter.policers[header(ret[1].cell)].last_time[1]

\* The tokens the bucket b is to hold once refilled for a call at now:
\* min(capacity, tokens + elapsed * rate), or the old tokens when elapsed <= 0
\* (a first call has elapsed = 0).
RefilledValue(b, now) ==
    IF b.last_time # None /\ now > b.last_time[1]
    THEN Min(b.capacity, b.tokens + (now - b.last_time[1]) * b.rate)
    ELSE b.tokens

\* C15: allow returns true exactly when the refilled value is >= 1.0 and then
\* subtracts exactly 1.0 from it; when it returns false the tokens are exactly
\* the refilled value.
C15_DeniedCallSubtractsNothing ==
    [][Asked =>
          LET b == atm_filter.policers[header(ret'[1].cell)]
              c == atm_filter'.policers[header(ret'[1].cell)]
              v == RefilledValue(b, ret'[1].now)
          IN  /\ (ret'[1].reason # "policer") = (v >= TokenUnit)
              /\ ret'[1].reason = "policer" => c.tokens = v
              /\ ret'[1].reason # "policer" => c.tokens = v - TokenUnit]_vars

\* A bucket of one token was emptied and then denied a call after a refill of
\* less than a token: it holds that refill, stamped with the time of the call.
C15_Witness ==
    /\ Len(ret) = 1
    /\ ret[1].reason = "policer"
    /\ atm_filter.policers[header(ret[1].cell)].tokens > 0
    /\ atm_filter.policers[header(ret[1].cell)].tokens < TokenUnit
    /\ atm_filter.policers[header(ret[1].cell)].capacity = TokenUnit
    /\ atm_filter.policers[header(ret[1].cell)].last_time = <<ret[1].now>>
    /\ ret[1].now > 0

\* floor(capacity), in tokens.
FloorCapacity == tb.capacity \div TokenUnit

\* C16: the first allow call on a fresh bucket, at whatever timestamp, finds the
\* tokens at capacity and sets last_time to its now; of the calls of a burst at
\* that one timestamp the first floor(capacity) return true and every later one
\* returns false.
C16_BurstOfFloorCapacity ==
    /\ steady.calls = 0 => (tb.tokens = tb.capacity /\ tb.last_time = None)
    /\ steady.calls = 1 =>
          /\ tb.last_time = <<steady.start>>
          /\ steady.ok = (tb.capacity >= TokenUnit)
          /\ tb.tokens = IF steady.ok THEN tb.capacity - TokenUnit ELSE tb.capacity
    /\ (steady.calls >= 1 /\ steady.delta = 0) =>
          /\ tb.last_time = <<steady.start>>
          /\ steady.ok = (steady.calls <= FloorCapacity)
          /\ tb.tokens = tb.capacity - TokenUnit * Min(steady.calls, FloorCapacity)

\* A burst of MaxCalls calls at one timestamp after the epoch on a bucket of one
\* token and a half, with a rate to refill it: the last call was denied and the
\* half token is left.
C16_Witness ==
    /\ steady.calls = MaxCalls
    /\ steady.delta = 0
    /\ steady.start > 0
    /\ tb.rate > 0
    /\ tb.capacity = TokenUnit + TokenUnit \div 2
    /\ tb.tokens = TokenUnit \div 2
    /\ ~steady.ok

\* C17: the counters of a run start at 0 and never decrease, each processed
\* cell adds exactly 1 to total, and every counter of a later snapshot, and of
\* the final result, is at least what it was in every earlier snapshot.
C17_CountersAppendOnly ==
    [][\A r \in DOMAIN sims :
          /\ (sims[r].pc = "start" /\ sims'[r].pc = "loop")
                => \A k \in SnapshotKeys :
                      Get(sims'[r].stats, k, 0) = 0 /\ Get(sims'[r].emit_stats, k, 0) = 0
          /\ (sims[r].pc = "loop" /\ sims'[r].pc = "loop")
                => /\ Inc(r, "total") = 1
                   /\ \A k \in SnapshotKeys :
                         /\ Inc(r, k) >= 0
                         /\ Get(sims'[r].emit_stats, k, 0) >= Get(sims[r].emit_stats, k, 0)
                         /\ Get(sims'[r].emit_stats, k, 0) <= Get(sims'[r].stats, k, 0)
          /\ (sims[r].pc = "loop" /\ HasFinal(r)')
                => \A k \in SnapshotKeys :
                      /\ Get(sims'[r].result, k, 0) = Get(sims[r].stats, k, 0)
                      /\ Get(sims'[r].result, k, 0) >= Get(sims[r].emit_stats, k, 0)]_vars

\* A run emitted two snapshots, the later one after its second cell, and then
\* its final result after a third cell.
C17_Witness ==
    /\ sims[1].pc = "returned"
    /\ Len(events) = 3
    /\ events[1].name = "sim_update"
    /\ events[2].name = "sim_update"
    /\ sims[1].emit_stats["total"] = 2
    /\ sims[1].result["total"] = 3

\* The identities between the counters of the dictionary d, a counter it does
\* not hold counting as 0.
Balanced(d) ==
    /\ Get(d, "total", 0) = Get(d, "forwarded", 0) + Get(d, "dropped", 0)
    /\ Get(d, "total", 0) = Get(d, "legit_total", 0) + Get(d, "mal_total", 0)
    /\ Get(d, "dropped", 0) = Get(d, "dropped_header", 0) + Get(d, "dropped_policer", 0)
                               + Get(d, "dropped_payload", 0)
    /\ Get(d, "mal_total", 0) = Get(d, "mal_forwarded", 0) + Get(d, "mal_dropped", 0)
    /\ Get(d, "legit_total", 0) = Get(d, "legit_forwarded", 0) + Get(d, "legit_dropped", 0)

\* C18: after every processed cell, in every snapshot emitted and in the final
\* result: total = forwarded + dropped = legit_total + mal_total, dropped is the
\* sum of the three per-reason counters, and each label's total is its forwarded
\* plus its dropped.
C18_CountersBalance ==
    \A r \in DOMAIN sims :
        /\ Balanced(sims[r].stats)
        /\ Balanced(sims[r].emit_stats)
        /\ Balanced(sims[r].result)

\* A finished run that emitted a snapshot and dropped one cell for each of the
\* three reasons.
C18_Witness ==
    /\ sims[1].pc = "returned"
    /\ Get(sims[1].emit_stats, "total", 0) >= 2
    /\ Get(sims[1].result, "total", 0) = 3
    /\ Get(sims[1].result, "dropped_header", 0) = 1
    /\ Get(sims[1].result, "dropped_policer", 0) = 1
    /\ Get(sims[1].result, "dropped_payload", 0) = 1

\* C19: a cell of a policed flow, not denylisted, that the payload rule drops
\* has consumed a token: after (drop, payload) the flow's bucket holds 1.0 less
\* than its refilled value, and no other bucket has changed.
C19_PayloadDropConsumesToken ==
    [][(Asked /\ ret'[1].reason = "payload") =>
          LET key == header(ret'[1].cell)
              b == atm_filter.policers[key]
              c == atm_filter'.policers[key]
          IN  /\ ret'[1].action = "drop"
              /\ RefilledValue(b, ret'[1].now) >= TokenUnit
              /\ c.tokens = RefilledValue(b, ret'[1].now) - TokenUnit
              /\ \A k \in DOMAIN atm_filter.policers \ {key} :
                    atm_filter'.policers[k] = atm_filter.policers[k]]_vars

\* A cell dropped for its payload took the only token of its flow's bucket, which
\* is never refilled: the flow's later cells have no allowance left.
C19_Witness ==
    /\ Len(ret) = 1
    /\ ret[1].reason = "payload"
    /\ header(ret[1].cell) \in DOMAIN atm_filter.policers
    /\ atm_filter.policers[header(ret[1].cell)].capacity = TokenUnit
    /\ atm_filter.policers[header(ret[1].cell)].rate = 0
    /\ atm_filter.policers[header(ret[1].cell)].tokens = 0

\* The events of a run are next to one another on the stream: no event of
\* another run lies between two of them.
Contiguous(ev) ==
    \A i, k \in 1..Len(ev) :
        (i < k /\ ev[i].run = ev[k].run) => \A j \in i..k : ev[j].run = ev[i].run

\* The step is the one by which the handler of request h accepts it.
Accepts(h) == handlers[h].pc = "check" /\ handlers'[h].pc = "create"

\* C20: events of distinct accepted runs never interleave.  When a request is
\* accepted no earlier worker is alive and every run that has emitted anything has
\* emitted its sim_done; an event is only ever emitted by the worker that is
\* alive, so everything an earlier run emits is on the stream before the later
\* run is accepted.
C20_RunsDoNotInterleave ==
    [][/\ Contiguous(events')
       /\ \A h \in DOMAIN handlers :
             Accepts(h) =>
                \A r \in DOMAIN sims :
                   /\ ~IsAlive(sims[r])
                   /\ sims[r].pc # "new"
                   /\ EventsOf(r) # <<>> => DoneEmitted(r)
       /\ events' # events =>
             /\ Len(events') = Len(events) + 1
             /\ SubSeq(events', 1, Len(events)) = events
             /\ AliveThreads = {events'[Len(events')].run}
             /\ ~DoneEmitted(events'[Len(events')].run)]_vars

\* Two runs were accepted one after the other; the stream holds the snapshot
\* and the sim_done of the first, then those of the second.
C20_Witness ==
    /\ handlers[1].reply = "sim_started"
    /\ handlers[2].reply = "sim_started"
    /\ events = <<[name |-> "sim_update", run |-> 1], [name |-> "sim_done", run |-> 1],
                  [name |-> "sim_update", run |-> 2], [name |-> "sim_done", run |-> 2]>>

=============================================================================
